---- MODULE Spec2Model ----
(***************************************************************************)
(* Model of src/lib.rs: unescape_char and unescape_str, the decoders of    *)
(* the contents of character and string literals.                          *)
(*                                                                         *)
(* A character is its Unicode scalar value (a natural number) and a text   *)
(* is a sequence of characters, so `chars.next()` is Head/Tail and a       *)
(* decoded character is a number that can be compared with what the        *)
(* digits of an escape denote.                                             *)
(***************************************************************************)
EXTENDS Integers, Sequences, FiniteSets, TLC

VARIABLES
    literal_text,   \* unescape_char: the argument
    src,            \* unescape_str: the argument
    chars,          \* the `chars` iterator: the text not yet consumed
    pc,             \* position in the running function
    value,          \* unescape_char: the accumulator of the \x / \u branch
    n_digits,       \* unescape_char: digits counted in the \u branch
    result,         \* unescape_char: the returned Result
    buf,            \* unescape_str: the output buffer
    errors          \* unescape_str: the on_error calls made so far

vars == <<literal_text, src, chars, pc, value, n_digits, result, buf, errors>>

----------------------------------------------------------------------------
(* Characters the code names.                                              *)
NUL == 0
TAB == 9
LF == 10
CR == 13
SPACE == 32
DQUOTE == 34
QUOTE == 39
DIGIT0 == 48
BACKSLASH == 92
UNDERSCORE == 95
LOWER_N == 110
LOWER_R == 114
LOWER_T == 116
LOWER_U == 117
LOWER_X == 120
LBRACE == 123
RBRACE == 125

(* Characters of the tests: a, v, the two-byte U+044B and the four-byte    *)
(* U+1F980.                                                                *)
LOWER_A == 97
LOWER_V == 118
CYRILLIC_YERU == 1099
CRAB == 129408

----------------------------------------------------------------------------
(* Bounds of the input sets.                                               *)
MaxLen == 2          \* free texts over Alphabet
MaxHexTail == 3      \* characters after \x
MaxDigits == 7       \* hex digits in the body of \u{
MaxStrLen == 5       \* length of the argument of unescape_str
MaxBuf == 2          \* pushes to buf that are followed

SeqsUpTo(S, n) == UNION {[1..k -> S] : k \in 0..n}

----------------------------------------------------------------------------
(* Result<char, UnescapeCharError>                                         *)
Ok(c) == [ok |-> TRUE, ch |-> c, err |-> "None"]
Err(e) == [ok |-> FALSE, ch |-> -1, err |-> e]
Pending == [ok |-> FALSE, ch |-> -1, err |-> "Pending"]

\* Option::None, of a character or of a digit
None == -1

\* ToDigit_Mut: a to_digit that does not know the upper-case digits.
ToDigit_Mut(c) ==
    IF c \in 48..57 THEN c - 48
    ELSE IF c \in 97..102 THEN 10 + c - 97
    ELSE None

\* char::to_digit(16): the value of an ASCII hex digit, None otherwise.
ToDigit(c) ==
    IF c \in 48..57 THEN c - 48
    ELSE IF c \in 97..102 THEN 10 + c - 97
    ELSE IF c \in 65..70 THEN 10 + c - 65
    ELSE None

\* u32::MAX / 16, 0x0FFF_FFFF
U32_MAX_DIV_16 == 268435455

\* u32::checked_mul(16): None when the product exceeds u32::MAX.
CheckedMul16(a) == IF a > U32_MAX_DIV_16 THEN None ELSE a * 16

\* u32::checked_add: None when the sum exceeds u32::MAX = 16 * U32_MAX_DIV_16 + 15.
CheckedAdd(a, b) ==
    IF (a \div 16) + (((a % 16) + b) \div 16) > U32_MAX_DIV_16 THEN None ELSE a + b

\* hi.checked_mul(16).unwrap().checked_add(lo).unwrap(): None stands for a panic.
Accumulate(v, d) ==
    IF CheckedMul16(v) = None THEN None ELSE CheckedAdd(CheckedMul16(v), d)

\* std::char::from_u32: None for a surrogate or a value above char::MAX.
FromU32(v) ==
    IF v > 1114111 \/ v \in 55296..57343 THEN None ELSE v

\* FromU32Error_Mut: the two arms of the closure exchanged.
FromU32Error_Mut(v) ==
    IF v > 1114111 THEN "LoneSurrogateUnicodeEscape" ELSE "OutOfRangeUnicodeEscape"

\* The closure of ok_or_else at the closing brace.
FromU32Error(v) ==
    IF v > 1114111 THEN "OutOfRangeUnicodeEscape" ELSE "LoneSurrogateUnicodeEscape"

\* value > 0x7f
HexOutOfRange(v) == v > 127

\* Overlong_Never: the count of the digits is not checked.
Overlong_Never(n) == FALSE

\* Overlong_OffByOne: a 7th digit is let through.
Overlong_OffByOne(n) == n > 7

\* n_digits > 6
Overlong(n) == n > 6

\* The table of the simple escapes; None for any other tag.
SimpleEscape(c) ==
    CASE c = DQUOTE -> DQUOTE
      [] c = LOWER_N -> LF
      [] c = LOWER_R -> CR
      [] c = LOWER_T -> TAB
      [] c = BACKSLASH -> BACKSLASH
      [] c = QUOTE -> QUOTE
      [] c = DIGIT0 -> NUL
      [] OTHER -> None

\* '\t' | '\n' | '\r' | '\''
EscapeOnly(c) == c \in {TAB, LF, CR, QUOTE}

----------------------------------------------------------------------------
(* Inputs of unescape_char.                                                *)
Alphabet ==
    {TAB, LF, CR, QUOTE, DQUOTE, BACKSLASH, DIGIT0, LOWER_N, LOWER_R, LOWER_T,
     LOWER_X, LOWER_U, LOWER_A, LOWER_V, CYRILLIC_YERU, CRAB}

\* 0 7 8 : A F G a f g
HexAlphabet == {48, 55, 56, 58, 65, 70, 71, 97, 102, 103}

\* 0 1 D
DigitAlphabet == {48, 49, 68}

\* D7FF D800 DFFF E000 10FFFF 110000 1F63b ffffff
BoundaryDigits ==
    { <<68, 55, 70, 70>>, <<68, 56, 48, 48>>, <<68, 70, 70, 70>>, <<69, 48, 48, 48>>,
      <<49, 48, 70, 70, 70, 70>>, <<49, 49, 48, 48, 48, 48>>,
      <<49, 70, 54, 51, 98>>, <<102, 102, 102, 102, 102, 102>> }

DigitStrings == SeqsUpTo(DigitAlphabet, MaxDigits) \cup BoundaryDigits

\* Underscores put into a digit string: none, after the first digit, two at
\* the end, one in front.
WithUnderscores(d, p) ==
    CASE p = 0 -> d
      [] p = 1 -> IF d = <<>> THEN d ELSE <<Head(d), UNDERSCORE>> \o Tail(d)
      [] p = 2 -> d \o <<UNDERSCORE, UNDERSCORE>>
      [] OTHER -> <<UNDERSCORE>> \o d

\* nothing, }, }x, }}, g
UnicodeTails ==
    { <<>>, <<RBRACE>>, <<RBRACE, LOWER_X>>, <<RBRACE, RBRACE>>, <<103>> }

FreeInputs == SeqsUpTo(Alphabet, MaxLen)

HexInputs == { <<BACKSLASH, LOWER_X>> \o t : t \in SeqsUpTo(HexAlphabet, MaxHexTail) }

UnicodeInputs ==
    { <<BACKSLASH, LOWER_U, LBRACE>> \o WithUnderscores(d, p) \o t :
        d \in DigitStrings, p \in 0..3, t \in UnicodeTails }

\* \"a \na \ra \ta \\a \'a \0a
EscapeThenMore == { <<BACKSLASH, c, LOWER_A>> : c \in Alphabet }

CharInputs == FreeInputs \cup HexInputs \cup UnicodeInputs \cup EscapeThenMore

----------------------------------------------------------------------------
(* unescape_char                                                           *)

Return(r, rest) ==
    /\ result' = r
    /\ chars' = rest
    /\ pc' = "done"
    /\ UNCHANGED <<value, n_digits>>

\* OneChar_Mut: the character is returned without a look at what follows.
OneChar_Mut(c, rest) == Return(Ok(c), rest)

\* if chars.next().is_some() { return Err(MoreThanOneChar) } Ok(c)
OneChar(c, rest) ==
    IF rest # <<>> THEN Return(Err("MoreThanOneChar"), Tail(rest))
    ELSE Return(Ok(c), rest)

\* Lines 27-52 and 118-124: the first character, the tag and the simple escapes.
Start ==
    /\ pc = "start"
    /\ UNCHANGED <<literal_text, src, buf, errors>>
    /\ IF chars = <<>> THEN Return(Err("ZeroChars"), chars)
       ELSE LET first_char == Head(chars)
                r1 == Tail(chars)
            IN  IF first_char # BACKSLASH
                THEN IF EscapeOnly(first_char)
                     THEN Return(Err("EscapeOnlyChar"), r1)
                     ELSE OneChar(first_char, r1)
                ELSE IF r1 = <<>> THEN Return(Err("LoneSlash"), r1)
                ELSE LET second_char == Head(r1)
                         r2 == Tail(r1)
                     IN  IF second_char = LOWER_X
                         THEN /\ pc' = "hex"
                              /\ chars' = r2
                              /\ UNCHANGED <<value, n_digits, result>>
                         ELSE IF second_char = LOWER_U
                         THEN /\ pc' = "unicode"
                              /\ chars' = r2
                              /\ UNCHANGED <<value, n_digits, result>>
                         ELSE IF SimpleEscape(second_char) = None
                         THEN Return(Err("InvalidEscape"), r2)
                         ELSE OneChar(SimpleEscape(second_char), r2)

\* Lines 53-73: the \x branch.
HexEscape ==
    /\ pc = "hex"
    /\ UNCHANGED <<literal_text, src, buf, errors>>
    /\ IF chars = <<>> \/ ToDigit(Head(chars)) = None
       THEN Return(Err("InvalidHexEscape"), IF chars = <<>> THEN chars ELSE Tail(chars))
       ELSE LET hi == ToDigit(Head(chars))
                r1 == Tail(chars)
            IN  IF r1 = <<>> \/ ToDigit(Head(r1)) = None
                THEN Return(Err("InvalidHexEscape"), IF r1 = <<>> THEN r1 ELSE Tail(r1))
                ELSE LET lo == ToDigit(Head(r1))
                         r2 == Tail(r1)
                         v == Accumulate(hi, lo)
                     IN  IF v = None
                         THEN /\ pc' = "panicked"
                              /\ chars' = r2
                              /\ UNCHANGED <<value, n_digits, result>>
                         ELSE /\ value' = v
                              /\ n_digits' = n_digits
                              /\ pc' = "done"
                              /\ IF HexOutOfRange(v)
                                 THEN /\ result' = Err("OutOfRangeHexEscape")
                                      /\ chars' = r2
                                 ELSE IF r2 # <<>>
                                 THEN /\ result' = Err("MoreThanOneChar")
                                      /\ chars' = Tail(r2)
                                 ELSE /\ result' = Ok(v % 256)
                                      /\ chars' = r2

\* Lines 75-86: the opening brace and the first character of the body.
UnicodeOpen ==
    /\ pc = "unicode"
    /\ UNCHANGED <<literal_text, src, buf, errors>>
    /\ IF chars = <<>> \/ Head(chars) # LBRACE
       THEN Return(Err("InvalidUnicodeEscape"), IF chars = <<>> THEN chars ELSE Tail(chars))
       ELSE LET r1 == Tail(chars)
            IN  IF r1 = <<>> THEN Return(Err("UnclosedUnicodeEscape"), r1)
                ELSE LET c == Head(r1)
                         r2 == Tail(r1)
                     IN  IF c = UNDERSCORE
                         THEN Return(Err("LeadingUnderscoreUnicodeEscape"), r2)
                         ELSE IF c = RBRACE
                         THEN Return(Err("EmptyUnicodeEscape"), r2)
                         ELSE IF ToDigit(c) = None
                         THEN Return(Err("InvalidUnicodeEscape"), r2)
                         ELSE /\ n_digits' = 1
                              /\ value' = ToDigit(c)
                              /\ chars' = r2
                              /\ pc' = "loop"
                              /\ UNCHANGED result

\* Lines 88-116: one iteration of the loop over the body.
UnicodeLoop ==
    /\ pc = "loop"
    /\ UNCHANGED <<literal_text, src, buf, errors>>
    /\ IF chars = <<>> THEN Return(Err("UnclosedUnicodeEscape"), chars)
       ELSE LET c == Head(chars)
                r1 == Tail(chars)
            IN  IF c = UNDERSCORE
                THEN /\ chars' = r1
                     /\ UNCHANGED <<pc, value, n_digits, result>>
                ELSE IF c = RBRACE
                THEN IF r1 # <<>>
                     THEN Return(Err("MoreThanOneChar"), Tail(r1))
                     ELSE IF FromU32(value) = None
                          THEN Return(Err(FromU32Error(value)), r1)
                          ELSE Return(Ok(FromU32(value)), r1)
                ELSE IF ToDigit(c) = None
                THEN Return(Err("InvalidUnicodeEscape"), r1)
                ELSE IF Overlong(n_digits + 1)
                THEN /\ n_digits' = n_digits + 1
                     /\ result' = Err("OverlongUnicodeEscape")
                     /\ chars' = r1
                     /\ pc' = "done"
                     /\ UNCHANGED value
                ELSE IF Accumulate(value, ToDigit(c)) = None
                THEN /\ n_digits' = n_digits + 1
                     /\ chars' = r1
                     /\ pc' = "panicked"
                     /\ UNCHANGED <<value, result>>
                ELSE /\ n_digits' = n_digits + 1
                     /\ value' = Accumulate(value, ToDigit(c))
                     /\ chars' = r1
                     /\ UNCHANGED <<pc, result>>

----------------------------------------------------------------------------
(* unescape_str                                                            *)

\* 0 .. MaxStrLen characters of: \ LF CR space TAB x q
StrAlphabet == {BACKSLASH, LF, CR, SPACE, TAB, LOWER_X, 113}

StrInputs == SeqsUpTo(StrAlphabet, MaxStrLen)

\* str::starts_with
StartsWith(s, p) == Len(s) >= Len(p) /\ SubSeq(s, 1, Len(p)) = p

\* The length in bytes of the UTF-8 encoding of a character.
Utf8Len(c) == IF c < 128 THEN 1 ELSE IF c < 2048 THEN 2 ELSE IF c < 65536 THEN 3 ELSE 4

RECURSIVE ByteLen(_)
\* str::len: the length in bytes.
ByteLen(s) == IF s = <<>> THEN 0 ELSE Utf8Len(Head(s)) + ByteLen(Tail(s))

\* SkipAsciiWhitespace_Mut: a skip that stops at a carriage return.
IsSkipped_Mut(c) == c \in {SPACE, TAB, LF}

\* b != b' ' && b != b'\t' && b != b'\n' && b != b'\r' fails: the byte is skipped.
\* Every byte of a character above 0x7F is above 0x7F, so the first byte that
\* is kept is the first byte of the first character that is kept.
IsSkipped(c) == c \in {SPACE, TAB, LF, CR}

RECURSIVE SkipAsciiWhitespace(_)
\* skip_ascii_whitespace: the iterator moved to the first byte that is kept.
SkipAsciiWhitespace(s) ==
    IF s = <<>> THEN s
    ELSE IF IsSkipped(Head(s)) THEN SkipAsciiWhitespace(Tail(s))
    ELSE s

\* scan_char_escape: Ok('x'), the iterator untouched.
ScanCharEscape(s) == [res |-> Ok(LOWER_X), rest |-> s]

\* Lines 139-144: the continuation \ LF.
LineContinuationLF ==
    /\ pc = "str_loop"
    /\ StartsWith(chars, <<BACKSLASH, LF>>)
    /\ chars' = SkipAsciiWhitespace(Tail(Tail(chars)))
    /\ UNCHANGED <<literal_text, src, pc, value, n_digits, result, buf, errors>>

\* Lines 145-149: the continuation \ CR LF; one chars.next(), then the skip.
LineContinuationCRLF ==
    /\ pc = "str_loop"
    /\ ~StartsWith(chars, <<BACKSLASH, LF>>)
    /\ StartsWith(chars, <<BACKSLASH, CR, LF>>)
    /\ chars' = SkipAsciiWhitespace(Tail(chars))
    /\ UNCHANGED <<literal_text, src, pc, value, n_digits, result, buf, errors>>

\* Lines 150-157: one unit. The loop has no exit: the action is enabled in
\* every other state, and is followed here for MaxBuf pushes.
ScanUnit ==
    /\ pc = "str_loop"
    /\ ~StartsWith(chars, <<BACKSLASH, LF>>)
    /\ ~StartsWith(chars, <<BACKSLASH, CR, LF>>)
    /\ Len(buf) < MaxBuf
    /\ LET r == ScanCharEscape(chars)
       IN  /\ chars' = r.rest
           /\ IF r.res.ok
              THEN /\ buf' = Append(buf, r.res.ch)
                   /\ UNCHANGED errors
              ELSE /\ errors' = Append(errors,
                          [src_pos |-> ByteLen(src) - ByteLen(r.rest), error |-> r.res.err])
                   /\ UNCHANGED buf
    /\ UNCHANGED <<literal_text, src, pc, value, n_digits, result>>

InitStr ==
    /\ src \in StrInputs
    /\ chars = src
    /\ pc = "str_loop"
    /\ buf = <<>>
    /\ errors = <<>>
    /\ literal_text = <<>>
    /\ value = 0
    /\ n_digits = 0
    /\ result = Pending

NextStr == LineContinuationLF \/ LineContinuationCRLF \/ ScanUnit

SpecStr == InitStr /\ [][NextStr]_vars

----------------------------------------------------------------------------
Init ==
    /\ literal_text \in CharInputs
    /\ chars = literal_text
    /\ pc = "start"
    /\ value = 0
    /\ n_digits = 0
    /\ result = Pending
    /\ src = <<>>
    /\ buf = <<>>
    /\ errors = <<>>

Next == Start \/ HexEscape \/ UnicodeOpen \/ UnicodeLoop

Spec == Init /\ [][Next]_vars

----------------------------------------------------------------------------
(* What the escapes denote, stated on the text alone.                      *)

HexDigitChars == (48..57) \cup (65..70) \cup (97..102)

\* The value of the hex digit c.
HexDigitValue(c) ==
    CHOOSE d \in 0..15 :
        \/ d < 10 /\ c = 48 + d
        \/ d >= 10 /\ c \in {55 + d, 87 + d}

RECURSIVE HexNumber(_)
\* The big-endian value of a sequence of hex digits.
HexNumber(ds) ==
    IF ds = <<>> THEN 0
    ELSE 16 * HexNumber(SubSeq(ds, 1, Len(ds) - 1)) + HexDigitValue(ds[Len(ds)])

IsHexChar(c) == c \in HexDigitChars
NotUnderscore(c) == c # UNDERSCORE

\* The hex digits of a body, its underscores dropped.
DigitsOf(body) == SelectSeq(body, NotUnderscore)

\* A body of hex digits and underscores that starts with a digit.
WellFormedBody(body) ==
    /\ body # <<>>
    /\ IsHexChar(body[1])
    /\ \A i \in 1..Len(body) : IsHexChar(body[i]) \/ body[i] = UNDERSCORE

IsScalarValue(v) == v <= 1114111 /\ ~(v >= 55296 /\ v <= 57343)

Denoted == [c \in {DQUOTE, LOWER_N, LOWER_R, LOWER_T, BACKSLASH, QUOTE, DIGIT0} |->
              CASE c = DQUOTE -> 34 [] c = LOWER_N -> 10 [] c = LOWER_R -> 13
                [] c = LOWER_T -> 9 [] c = BACKSLASH -> 92 [] c = QUOTE -> 39
                [] OTHER -> 0]

IsHexEscape(s) == Len(s) >= 2 /\ s[1] = BACKSLASH /\ s[2] = LOWER_X
IsUnicodeEscape(s) ==
    Len(s) >= 3 /\ s[1] = BACKSLASH /\ s[2] = LOWER_U /\ s[3] = LBRACE

\* The position of the first closing brace of s, 0 when there is none.
FirstBrace(s) ==
    IF \E k \in 1..Len(s) : s[k] = RBRACE
    THEN CHOOSE k \in 1..Len(s) : s[k] = RBRACE /\ \A j \in 1..(k - 1) : s[j] # RBRACE
    ELSE 0

\* s begins with a closed \u{...} whose body is well formed and holds at most
\* 6 digits.
ClosedUnicode(s) ==
    /\ IsUnicodeEscape(s)
    /\ FirstBrace(s) > 4
    /\ WellFormedBody(SubSeq(s, 4, FirstBrace(s) - 1))
    /\ Len(DigitsOf(SubSeq(s, 4, FirstBrace(s) - 1))) <= 6

UnicodeValue(s) == HexNumber(DigitsOf(SubSeq(s, 4, FirstBrace(s) - 1)))

\* s begins with \x and two hex digits.
ClosedHex(s) == IsHexEscape(s) /\ Len(s) >= 4 /\ IsHexChar(s[3]) /\ IsHexChar(s[4])

HexValue(s) == 16 * HexDigitValue(s[3]) + HexDigitValue(s[4])

\* The length of the complete and valid unit s begins with, 0 when it begins
\* with none.
UnitLen(s) ==
    IF s = <<>> THEN 0
    ELSE IF s[1] # BACKSLASH THEN (IF s[1] \in {TAB, LF, CR, QUOTE} THEN 0 ELSE 1)
    ELSE IF Len(s) >= 2 /\ s[2] \in DOMAIN Denoted THEN 2
    ELSE IF ClosedHex(s) THEN (IF HexValue(s) <= 127 THEN 4 ELSE 0)
    ELSE IF ClosedUnicode(s) THEN (IF IsScalarValue(UnicodeValue(s)) THEN FirstBrace(s) ELSE 0)
    ELSE 0

\* The character that unit denotes.
UnitChar(s) ==
    IF s[1] # BACKSLASH THEN s[1]
    ELSE IF s[2] \in DOMAIN Denoted THEN Denoted[s[2]]
    ELSE IF s[2] = LOWER_X THEN HexValue(s)
    ELSE UnicodeValue(s)

\* The error scanning the unit s begins with yields on the text it consumed,
\* "None" when it yields none of the three.
ScanError(s) ==
    IF ClosedHex(s) THEN (IF HexValue(s) > 127 THEN "OutOfRangeHexEscape" ELSE "None")
    ELSE IF ClosedUnicode(s)
    THEN (IF UnicodeValue(s) > 1114111 THEN "OutOfRangeUnicodeEscape"
          ELSE IF ~IsScalarValue(UnicodeValue(s)) THEN "LoneSurrogateUnicodeEscape"
          ELSE "None")
    ELSE "None"

Returned == pc = "done"

----------------------------------------------------------------------------
\* C1: when the text begins with a complete and valid unit, unescape_char
\* returns Err(MoreThanOneChar) if anything follows the unit and Ok of the
\* character the unit denotes if nothing does.
C1_ValidUnitThenCardinality ==
    (Returned /\ UnitLen(literal_text) > 0) =>
        IF Len(literal_text) > UnitLen(literal_text)
        THEN result = Err("MoreThanOneChar")
        ELSE result = Ok(UnitChar(literal_text))

\* \u{0}x was answered MoreThanOneChar.
C1_Witness ==
    /\ Returned
    /\ literal_text = <<BACKSLASH, LOWER_U, LBRACE, DIGIT0, RBRACE, LOWER_X>>
    /\ result = Err("MoreThanOneChar")

\* C2: a scan error found on the consumed unit (\xHH above 0x7F, a closed
\* \u{...} above 0x10FFFF or in the surrogate range) is the result whether or
\* not text follows the unit, and MoreThanOneChar is returned only after a
\* unit that scanned successfully.
C2_ScanErrorBeforeCardinality ==
    Returned =>
        /\ ScanError(literal_text) # "None" => result = Err(ScanError(literal_text))
        /\ result = Err("MoreThanOneChar") =>
              /\ UnitLen(literal_text) > 0
              /\ Len(literal_text) > UnitLen(literal_text)

\* C3: an unescaped TAB, LF or ' in front gives EscapeOnlyChar, CR LF gives
\* EscapeOnlyChar, and a CR that no LF follows gives BareCarriageReturn.
C3_ForbiddenFirstChar ==
    (Returned /\ literal_text # <<>>) =>
        /\ literal_text[1] \in {TAB, LF, QUOTE} => result = Err("EscapeOnlyChar")
        /\ literal_text[1] = CR =>
              IF Len(literal_text) >= 2 /\ literal_text[2] = LF
              THEN result = Err("EscapeOnlyChar")
              ELSE result = Err("BareCarriageReturn")

\* C4: after \x, fewer than two characters or a character that is no hex
\* digit among the next two gives InvalidHexEscape; exactly two hex digits
\* and nothing more give OutOfRangeHexEscape above 0x7F and else Ok of the
\* character hi*16+lo.
C4_HexEscape ==
    (Returned /\ IsHexEscape(literal_text)) =>
        IF ~ClosedHex(literal_text) THEN result = Err("InvalidHexEscape")
        ELSE Len(literal_text) = 4 =>
                IF HexValue(literal_text) > 127
                THEN result = Err("OutOfRangeHexEscape")
                ELSE result = Ok(HexValue(literal_text))

\* \x7A was answered Ok('z').
C4_Witness ==
    /\ Returned
    /\ literal_text = <<BACKSLASH, LOWER_X, 55, 65>>
    /\ result = Ok(122)

\* C5: \u{D} with nothing after the brace, D of hex digits and underscores,
\* starting with a digit and holding 1 to 6 digits: with v the value of the
\* digits, the result is OutOfRangeUnicodeEscape above 0x10FFFF,
\* LoneSurrogateUnicodeEscape in 0xD800..0xDFFF and else Ok(v).
C5_UnicodeValue ==
    (/\ Returned
     /\ ClosedUnicode(literal_text)
     /\ FirstBrace(literal_text) = Len(literal_text)) =>
        LET v == UnicodeValue(literal_text)
        IN  IF v > 1114111 THEN result = Err("OutOfRangeUnicodeEscape")
            ELSE IF v >= 55296 /\ v <= 57343 THEN result = Err("LoneSurrogateUnicodeEscape")
            ELSE result = Ok(v)

\* \u{1_0DD__} was answered Ok(U+10DD): the underscores in the middle and at
\* the end count for nothing.
C5_Witness ==
    /\ Returned
    /\ literal_text = <<BACKSLASH, LOWER_U, LBRACE, 49, UNDERSCORE, 48, 68, 68, RBRACE>>
    /\ result = Ok(4317)

\* C6: every iteration of the loop of unescape_str consumes at least one
\* character of the input, so the loop ends.
C6_EachIterationConsumes == [][Len(chars') < Len(chars)]_vars

\* C7: unescape_str calls on_error once for each malformed unit, in order:
\* for \x\q, once two units are done, the calls are InvalidHexEscape and
\* InvalidEscape.
C7_FailSoft ==
    (/\ src = <<BACKSLASH, LOWER_X, BACKSLASH, 113>>
     /\ Len(buf) + Len(errors) >= 2) =>
        [i \in 1..Len(errors) |-> errors[i].error] = <<"InvalidHexEscape", "InvalidEscape">>

\* s stands at a line continuation.
AtContinuation(s) ==
    \/ Len(s) >= 2 /\ s[1] = BACKSLASH /\ s[2] = LF
    \/ Len(s) >= 3 /\ s[1] = BACKSLASH /\ s[2] = CR /\ s[3] = LF

\* The number of leading characters of s that are space, TAB, LF or CR.
BlankPrefix(s) ==
    CHOOSE k \in 0..Len(s) :
        /\ \A i \in 1..k : s[i] \in {32, 9, 10, 13}
        /\ k < Len(s) => s[k + 1] \notin {32, 9, 10, 13}

\* What is left of s after its continuation and the blanks behind it.
AfterContinuation(s) ==
    LET t == IF s[2] = LF THEN SubSeq(s, 3, Len(s)) ELSE SubSeq(s, 4, Len(s))
    IN  SubSeq(t, BlankPrefix(t) + 1, Len(t))

\* C8: a step taken at a line continuation (\ LF or \ CR LF) leaves the
\* cursor at the first character behind the terminator that is no space, TAB,
\* LF or CR, pushes nothing and reports nothing; the two forms leave the same
\* state.
C8_LineContinuation ==
    [][AtContinuation(chars) =>
          /\ chars' = AfterContinuation(chars)
          /\ buf' = buf
          /\ errors' = errors]_vars

\* \ CR LF TAB x: the cursor stands at x and nothing was pushed.
C8_Witness ==
    /\ src = <<BACKSLASH, CR, LF, TAB, LOWER_X>>
    /\ chars = <<LOWER_X>>
    /\ buf = <<>>
    /\ errors = <<>>

ErrorKinds ==
    {"ZeroChars", "MoreThanOneChar", "LoneSlash", "InvalidEscape", "EscapeOnlyChar",
     "InvalidHexEscape", "OutOfRangeHexEscape", "InvalidUnicodeEscape",
     "EmptyUnicodeEscape", "UnclosedUnicodeEscape", "LeadingUnderscoreUnicodeEscape",
     "OverlongUnicodeEscape", "LoneSurrogateUnicodeEscape", "OutOfRangeUnicodeEscape"}

\* C9: unescape_char never panics: no unwrap fails, the accumulator stays
\* within 0xFF in the \x branch and within 0xFFFFFF in the \u branch, and
\* what is returned is Ok of a character or one of the error kinds.
C9_NeverPanics ==
    /\ pc # "panicked"
    /\ value <= 16777215
    /\ IsHexEscape(literal_text) => value <= 255
    /\ Returned => \/ result.ok /\ result.ch \in 0..1114111
                   \/ ~result.ok /\ result.err \in ErrorKinds

\* \u{ffffff} was scanned to its brace: the accumulator holds 0xFFFFFF.
C9_Witness ==
    /\ Returned
    /\ value = 16777215
    /\ result = Err("OutOfRangeUnicodeEscape")

\* The position in body of its 7th hex digit, when only hex digits and
\* underscores stand before it and the body starts with a digit; else 0.
SeventhDigit(body) ==
    IF \E k \in 1..Len(body) :
          /\ WellFormedBody(SubSeq(body, 1, k))
          /\ IsHexChar(body[k])
          /\ Len(DigitsOf(SubSeq(body, 1, k))) = 7
    THEN CHOOSE k \in 1..Len(body) :
          /\ WellFormedBody(SubSeq(body, 1, k))
          /\ IsHexChar(body[k])
          /\ Len(DigitsOf(SubSeq(body, 1, k))) = 7
    ELSE 0

BodyOf(s) == SubSeq(s, 4, Len(s))

\* C10: in the body of \u{, OverlongUnicodeEscape is returned at the 7th hex
\* digit, nothing behind that digit being read, whatever follows it; and it
\* is returned in no other case.
C10_OverlongAtSeventhDigit ==
    Returned =>
        IF IsUnicodeEscape(literal_text) /\ SeventhDigit(BodyOf(literal_text)) > 0
        THEN /\ result = Err("OverlongUnicodeEscape")
             /\ chars = SubSeq(BodyOf(literal_text),
                               SeventhDigit(BodyOf(literal_text)) + 1,
                               Len(BodyOf(literal_text)))
        ELSE result # Err("OverlongUnicodeEscape")

\* \u{D_000000 ends at its 7th digit, where the text ends too: the answer is
\* Overlong, not Unclosed.
C10_Witness ==
    /\ Returned
    /\ literal_text = <<BACKSLASH, LOWER_U, LBRACE, 68, UNDERSCORE, 48, 48, 48, 48, 48, 48>>
    /\ result = Err("OverlongUnicodeEscape")

====
